---- MODULE Spec2Model ----
(***************************************************************************)
(* A model of scripts/generate_overview.py: print_tree("src") followed by  *)
(* print_files("src"), run over a small file system.                       *)
(*                                                                         *)
(* Standard output is the sequence of writes made so far.  Every write is  *)
(* tagged with the source line of the statement that made it, and carries  *)
(* the exact text written, as a sequence of characters.  A fixed literal   *)
(* of the script ("Directory tree:", "```", "```rust", ":", "/", a file    *)
(* name) is kept as one atom standing for its run of characters; file      *)
(* contents are kept byte by byte.                                         *)
(***************************************************************************)
EXTENDS Integers, Sequences, FiniteSets

VARIABLES
    fs,         \* the file system: path -> node (never written by the script)
    pc,         \* the statement about to run
    out,        \* standard output: the writes made so far
    stack,      \* os.walk's stack of directories still to list
    root,       \* print_files: the directory os.walk yielded last
    files,      \* print_files: the names the inner for loop has still to visit
    file,       \* print_files: the current file name
    f,          \* the open file handles (paths)
    exc,        \* the exception being propagated, "none" when there is none
    exit_code   \* the interpreter's exit status, meaningful when pc = "exited"

vars == <<fs, pc, out, stack, root, files, file, f, exc, exit_code>>

----------------------------------------------------------------------------
(* Bounds *)

\* The longest content of src/a.rs, in bytes.
MaxLen == 2

----------------------------------------------------------------------------
(* Characters, bytes and paths *)

\* The three backticks of a fence, "```", as one atom.
Fence == "FENCE"
LF == "\n"
CR == "\r"
\* A byte that is not valid UTF-8 anywhere in a file.
BAD == "0xFF"
\* The bytes a file is made of.
Bytes == {"h", LF, CR, BAD}

\* The contents of up to MaxLen bytes, and those of one byte at most.
Contents == UNION {[1..n -> Bytes] : n \in 0..MaxLen}
ShortContents == {<<>>} \cup {<<b>> : b \in Bytes}

\* os.path.join(root, file) for a relative name: root, the separator, the name.
os_path_join(p, name) == p \o <<"/", name>>

Root == <<"src">>
FileA == os_path_join(Root, "a.rs")
SubDir == os_path_join(Root, "sub")
FileB == os_path_join(SubDir, "b.rs")
FileC == os_path_join(Root, "c.rs")

Names == {"a.rs", "sub", "b.rs", "c.rs"}
AllPaths == {Root, FileA, SubDir, FileB, FileC}

\* The directory a path of the file system lies in (Root has none).
Parent(p) == SubSeq(p, 1, Len(p) - 2)

None == [kind |-> "none", ok |-> FALSE, bytes |-> <<>>]
\* A directory; ok: it can be listed.
Dir(ok) == [kind |-> "dir", ok |-> ok, bytes |-> <<>>]
\* A regular file; ok: it can be opened for reading.
File(ok, bytes) == [kind |-> "file", ok |-> ok, bytes |-> bytes]

\* What a file path may hold: nothing, a file that cannot be opened, or a
\* readable file with any content.
FileNodes(contents) ==
    {None, File(FALSE, <<>>)} \cup {File(TRUE, b) : b \in contents}
DirNodes == {None, Dir(TRUE), Dir(FALSE)}

\* The file system with the given nodes at its five paths; what lies in a
\* directory that does not exist does not exist either.
MkFs(r, a, s, b, c) ==
    [p \in AllPaths |->
        CASE p = Root -> r
          [] p = FileA -> IF r.kind = "dir" THEN a ELSE None
          [] p = FileC -> IF r.kind = "dir" THEN c ELSE None
          [] p = SubDir -> IF r.kind = "dir" THEN s ELSE None
          [] p = FileB -> IF r.kind = "dir" /\ s.kind = "dir" THEN b ELSE None]

\* The file systems of the model: src/ may be missing; src/a.rs, src/c.rs,
\* src/sub/ and src/sub/b.rs may each be missing; src/sub/ may be a directory
\* that cannot be listed (whatever it holds).  src/a.rs takes every content up
\* to MaxLen bytes, the other two files every content of at most one byte.
FileSystems ==
    {MkFs(r, a, s, b, c) : r \in {None, Dir(TRUE)}, a \in FileNodes(Contents),
                           s \in DirNodes, b \in FileNodes(ShortContents),
                           c \in FileNodes(ShortContents)}

----------------------------------------------------------------------------
(* The collaborators: the file system calls, text decoding, print *)

\* os.scandir(top) fails with OSError when top is missing, is no directory
\* or cannot be listed.
scandir_fails(top) == fs[top].kind # "dir" \/ ~fs[top].ok

\* The entries os.scandir(top) yields, as names.
scandir(top) ==
    {n \in Names : os_path_join(top, n) \in AllPaths
                   /\ fs[os_path_join(top, n)].kind # "none"}

\* os.walk's split of the entries: entry.is_dir() or not.
walk_dirs(top) == {n \in scandir(top) : fs[os_path_join(top, n)].kind = "dir"}
walk_nondirs(top) == {n \in scandir(top) : fs[os_path_join(top, n)].kind # "dir"}

\* The orders in which a directory's entries may be listed: scandir's order
\* is the operating system's.
Orderings(S) ==
    {s \in [1..Cardinality(S) -> S] : \A i, j \in DOMAIN s : s[i] = s[j] => i = j}

Reverse(s) == [i \in 1..Len(s) |-> s[Len(s) + 1 - i]]

\* os.walk's loop "while stack: top = stack.pop(); try: scandir(top) except
\* OSError: continue": the stack once every directory on its top that cannot
\* be listed has been popped and skipped (onerror is None: nothing is raised).
RECURSIVE walk_skip(_)
walk_skip(st) ==
    IF st = <<>> THEN st
    ELSE IF scandir_fails(st[Len(st)]) THEN walk_skip(SubSeq(st, 1, Len(st) - 1))
    ELSE st

\* open(path, "r") fails (FileNotFoundError, PermissionError) when path is no
\* file that can be opened for reading.
open_fails(path) == fs[path].kind # "file" \/ ~fs[path].ok

\* The text decoder of f.read(): a byte that is not valid raises
\* UnicodeDecodeError.
decode_fails(bytes) == \E i \in DOMAIN bytes : bytes[i] = BAD

\* Universal newlines of a file opened in text mode with newline=None:
\* "\r\n" and a lone "\r" are read as "\n".
RECURSIVE translate_newlines(_)
translate_newlines(s) ==
    IF s = <<>> THEN <<>>
    ELSE IF s[1] = CR /\ Len(s) >= 2 /\ s[2] = LF
         THEN <<LF>> \o translate_newlines(SubSeq(s, 3, Len(s)))
    ELSE IF s[1] = CR THEN <<LF>> \o translate_newlines(Tail(s))
    ELSE <<s[1]>> \o translate_newlines(Tail(s))

\* Mutant of read: the bytes handed over as they are, as by a file opened
\* with newline="".
read_untranslated(bytes) == bytes

\* f.read() of a file whose bytes decode.
read(bytes) == translate_newlines(bytes)

\* print(s) made by the statement at `line`: s and the end="\n" print adds.
print(line, s) == Append(out, [line |-> line, text |-> s \o <<LF>>])

\* What DisplayTree writes by itself: the rendering, whatever it is.
TreeText == <<"<tree>">>

----------------------------------------------------------------------------
(* The program *)

Init ==
    /\ fs \in FileSystems
    /\ pc = "L27"
    /\ out = <<>>
    /\ stack = <<>>
    /\ root = <<>>
    /\ files = <<>>
    /\ file = ""
    /\ f = {}
    /\ exc = "none"
    /\ exit_code = 0

\* Mutant of main_27: the two calls of the main block swapped, print_files
\* first.
main_27_files_first ==
    /\ pc = "L27"
    /\ stack' = <<Root>>
    /\ pc' = "L16"
    /\ UNCHANGED <<fs, out, root, files, file, f, exc, exit_code>>

\* Line 27: print_tree("src") is called.
main_27 ==
    /\ pc = "L27"
    /\ pc' = "L7"
    /\ UNCHANGED <<fs, out, stack, root, files, file, f, exc, exit_code>>

\* Line 7: print("Directory tree:")
print_tree_7 ==
    /\ pc = "L7"
    /\ out' = print(7, <<"Directory tree:">>)
    /\ pc' = "L8"
    /\ UNCHANGED <<fs, stack, root, files, file, f, exc, exit_code>>

\* Line 8: print("```")
print_tree_8 ==
    /\ pc = "L8"
    /\ out' = print(8, <<Fence>>)
    /\ pc' = "L9"
    /\ UNCHANGED <<fs, stack, root, files, file, f, exc, exit_code>>

\* Mutant of DisplayTree: a renderer that reports a missing directory on
\* standard output and returns instead of raising.
DisplayTree_returns ==
    /\ pc = "L9"
    /\ out' = Append(out, [line |-> 9, text |-> TreeText])
    /\ pc' = "L10"
    /\ UNCHANGED <<fs, stack, root, files, file, f, exc, exit_code>>

\* Line 9: DisplayTree(dir), the third-party renderer, whose code the script
\* does not hold.  It writes its rendering and returns when the directory
\* exists, and raises, having written nothing, when the directory does not
\* exist.
DisplayTree ==
    /\ pc = "L9"
    /\ IF fs[Root].kind = "dir"
       THEN /\ out' = Append(out, [line |-> 9, text |-> TreeText])
            /\ pc' = "L10"
            /\ exc' = exc
       ELSE /\ exc' = "DisplayTreeError"
            /\ pc' = "raise"
            /\ out' = out
    /\ UNCHANGED <<fs, stack, root, files, file, f, exit_code>>

\* Mutant of print_tree_10: the closing fence of the tree block forgotten.
print_tree_10_no_fence ==
    /\ pc = "L10"
    /\ pc' = "L11"
    /\ UNCHANGED <<fs, out, stack, root, files, file, f, exc, exit_code>>

\* Line 10: print("```")
print_tree_10 ==
    /\ pc = "L10"
    /\ out' = print(10, <<Fence>>)
    /\ pc' = "L11"
    /\ UNCHANGED <<fs, stack, root, files, file, f, exc, exit_code>>

\* Line 11: print("\n"), and print_tree returns to line 28.
print_tree_11 ==
    /\ pc = "L11"
    /\ out' = print(11, <<LF>>)
    /\ pc' = "L28"
    /\ UNCHANGED <<fs, stack, root, files, file, f, exc, exit_code>>

\* Line 28: print_files("src") is called; os.walk(dir) starts with the
\* directory alone on its stack.
main_28 ==
    /\ pc = "L28"
    /\ stack' = <<Root>>
    /\ pc' = "L16"
    /\ UNCHANGED <<fs, out, root, files, file, f, exc, exit_code>>

\* Mutant of print_files_16: the directory listed without recursion, as by
\* os.listdir(dir): no subdirectory is pushed.
print_files_16_flat ==
    /\ pc = "L16"
    /\ LET st == walk_skip(stack) IN
       IF st = <<>>
       THEN /\ stack' = <<>>
            /\ pc' = "exited"
            /\ exit_code' = 0
            /\ UNCHANGED <<root, files>>
       ELSE LET top == st[Len(st)] IN
            \E nondirs \in Orderings(walk_nondirs(top)) :
                /\ root' = top
                /\ files' = nondirs
                /\ stack' = SubSeq(st, 1, Len(st) - 1)
                /\ pc' = "L17"
                /\ exit_code' = exit_code
    /\ UNCHANGED <<fs, out, file, f, exc>>

\* Mutant of print_files_16: os.walk called with an onerror that raises: a
\* directory that cannot be listed ends the walk with its OSError.
print_files_16_onerror_raise ==
    /\ pc = "L16"
    /\ IF stack = <<>>
       THEN /\ pc' = "exited"
            /\ exit_code' = 0
            /\ UNCHANGED <<stack, root, files, exc>>
       ELSE IF scandir_fails(stack[Len(stack)])
       THEN /\ exc' = "OSError"
            /\ pc' = "raise"
            /\ UNCHANGED <<stack, root, files, exit_code>>
       ELSE LET top == stack[Len(stack)] IN
            \E dirs \in Orderings(walk_dirs(top)),
               nondirs \in Orderings(walk_nondirs(top)) :
                /\ root' = top
                /\ files' = nondirs
                /\ stack' = SubSeq(stack, 1, Len(stack) - 1)
                            \o Reverse([i \in 1..Len(dirs) |-> os_path_join(top, dirs[i])])
                /\ pc' = "L17"
                /\ UNCHANGED <<exc, exit_code>>
    /\ UNCHANGED <<fs, out, file, f>>

\* Line 16: the for loop asks os.walk for its next (root, dirs, files).  os.walk
\* pops directories until one can be listed, yields it with its entries split
\* into directories and the rest, and pushes its subdirectories (reversed) to
\* be listed next.  When the stack runs empty the loop ends, print_files
\* returns, and the program ends with status 0.
print_files_16 ==
    /\ pc = "L16"
    /\ LET st == walk_skip(stack) IN
       IF st = <<>>
       THEN /\ stack' = <<>>
            /\ pc' = "exited"
            /\ exit_code' = 0
            /\ UNCHANGED <<root, files>>
       ELSE LET top == st[Len(st)] IN
            \E dirs \in Orderings(walk_dirs(top)),
               nondirs \in Orderings(walk_nondirs(top)) :
                /\ root' = top
                /\ files' = nondirs
                /\ stack' = SubSeq(st, 1, Len(st) - 1)
                            \o Reverse([i \in 1..Len(dirs) |-> os_path_join(top, dirs[i])])
                /\ pc' = "L17"
                /\ exit_code' = exit_code
    /\ UNCHANGED <<fs, out, file, f, exc>>

\* Line 17: for file in files.
print_files_17 ==
    /\ pc = "L17"
    /\ IF files = <<>>
       THEN /\ pc' = "L16"
            /\ UNCHANGED <<files, file>>
       ELSE /\ file' = Head(files)
            /\ files' = Tail(files)
            /\ pc' = "L18"
    /\ UNCHANGED <<fs, out, stack, root, f, exc, exit_code>>

\* Line 18: print(f"{os.path.join(root, file)}:")
print_files_18 ==
    /\ pc = "L18"
    /\ out' = print(18, os_path_join(root, file) \o <<":">>)
    /\ pc' = "L19"
    /\ UNCHANGED <<fs, stack, root, files, file, f, exc, exit_code>>

\* Mutant of print_files_19: the fence tag taken from the file's extension.
print_files_19_by_extension ==
    /\ pc = "L19"
    /\ out' = print(19, <<Fence, "rs">>)
    /\ pc' = "L20"
    /\ UNCHANGED <<fs, stack, root, files, file, f, exc, exit_code>>

\* Line 19: print("```rust")
print_files_19 ==
    /\ pc = "L19"
    /\ out' = print(19, <<Fence, "rust">>)
    /\ pc' = "L20"
    /\ UNCHANGED <<fs, stack, root, files, file, f, exc, exit_code>>

\* Line 20: with open(os.path.join(root, file), "r") as f.  A failed open
\* raises before the with block is entered.
print_files_20 ==
    /\ pc = "L20"
    /\ IF open_fails(os_path_join(root, file))
       THEN /\ exc' = "OSError"
            /\ pc' = "raise"
            /\ f' = f
       ELSE /\ f' = f \cup {os_path_join(root, file)}
            /\ pc' = "L21"
            /\ exc' = exc
    /\ UNCHANGED <<fs, out, stack, root, files, file, exit_code>>

\* Mutant of print_files_21: the closing fence printed even when the read
\* fails, as by a try/finally around the read.
print_files_21_finally ==
    /\ pc = "L21"
    /\ LET bytes == fs[os_path_join(root, file)].bytes IN
       IF decode_fails(bytes)
       THEN /\ exc' = "UnicodeDecodeError"
            /\ out' = print(22, <<Fence, LF>>)
       ELSE /\ out' = print(21, read(bytes))
            /\ exc' = exc
    /\ pc' = "with_exit"
    /\ UNCHANGED <<fs, stack, root, files, file, f, exit_code>>

\* Line 21: print(f.read()).  A read that cannot decode raises inside the
\* with block.
print_files_21 ==
    /\ pc = "L21"
    /\ LET bytes == fs[os_path_join(root, file)].bytes IN
       IF decode_fails(bytes)
       THEN /\ exc' = "UnicodeDecodeError"
            /\ out' = out
       ELSE /\ out' = print(21, read(bytes))
            /\ exc' = exc
    /\ pc' = "with_exit"
    /\ UNCHANGED <<fs, stack, root, files, file, f, exit_code>>

\* Mutant of with_exit: the error of a file swallowed and the loop resumed
\* (skip and continue).
with_exit_skip ==
    /\ pc = "with_exit"
    /\ f' = f \ {os_path_join(root, file)}
    /\ pc' = "L22"
    /\ UNCHANGED <<fs, out, stack, root, files, file, exc, exit_code>>

\* Mutant of with_exit: the file closed by a plain f.close() after the read,
\* which an exception skips.
with_exit_leak ==
    /\ pc = "with_exit"
    /\ f' = IF exc = "none" THEN f \ {os_path_join(root, file)} ELSE f
    /\ pc' = IF exc = "none" THEN "L22" ELSE "raise"
    /\ UNCHANGED <<fs, out, stack, root, files, file, exc, exit_code>>

\* Lines 20-21: the with block is left, normally or by the exception of line
\* 21: the file is closed, and the exception, if any, goes on.
with_exit ==
    /\ pc = "with_exit"
    /\ f' = f \ {os_path_join(root, file)}
    /\ pc' = IF exc = "none" THEN "L22" ELSE "raise"
    /\ UNCHANGED <<fs, out, stack, root, files, file, exc, exit_code>>

\* Line 22: print("```\n")
print_files_22 ==
    /\ pc = "L22"
    /\ out' = print(22, <<Fence, LF>>)
    /\ pc' = "L17"
    /\ UNCHANGED <<fs, stack, root, files, file, f, exc, exit_code>>

\* No statement of the script catches anything: an exception reaches the top
\* level and the interpreter exits with status 1.
unhandled ==
    /\ pc = "raise"
    /\ pc' = "exited"
    /\ exit_code' = 1
    /\ UNCHANGED <<fs, out, stack, root, files, file, f, exc>>

Next ==
    \/ main_27
    \/ print_tree_7
    \/ print_tree_8
    \/ DisplayTree
    \/ print_tree_10
    \/ print_tree_11
    \/ main_28
    \/ print_files_16
    \/ print_files_17
    \/ print_files_18
    \/ print_files_19
    \/ print_files_20
    \/ print_files_21
    \/ with_exit
    \/ print_files_22
    \/ unhandled

Spec == Init /\ [][Next]_vars

\* The script run as a program, from line 27, or print_files("src") called by
\* itself, as at line 28, with nothing written before.
CallInit ==
    /\ fs \in FileSystems
    /\ pc \in {"L27", "L28"}
    /\ out = <<>>
    /\ stack = <<>>
    /\ root = <<>>
    /\ files = <<>>
    /\ file = ""
    /\ f = {}
    /\ exc = "none"
    /\ exit_code = 0

CallSpec == CallInit /\ [][Next]_vars

----------------------------------------------------------------------------
(* Reading standard output *)

TreeLines == {7, 8, 9, 10, 11}
FileLines == {18, 19, 21, 22}

\* The positions of the writes made by the statements at the lines S.
Lines(S) == {i \in DOMAIN out : out[i].line \in S}

\* The whole block print_tree writes when DisplayTree returns.
TreeBlock ==
    << [line |-> 7, text |-> <<"Directory tree:", LF>>],
       [line |-> 8, text |-> <<Fence, LF>>],
       [line |-> 9, text |-> TreeText],
       [line |-> 10, text |-> <<Fence, LF>>],
       [line |-> 11, text |-> <<LF, LF>>] >>

\* The statements of print_files, and where a run can be once it is over.
InPrintFiles == {"L16", "L17", "L18", "L19", "L20", "L21", "with_exit", "L22"}

RegularFiles == {p \in AllPaths : fs[p].kind = "file"}

\* The regular files os.walk reaches: those whose directories, up to the
\* root, all exist and can be listed.
RECURSIVE Listed(_)
Listed(d) ==
    /\ fs[d].kind = "dir" /\ fs[d].ok
    /\ d # Root => Listed(Parent(d))
WalkedFiles == {p \in RegularFiles : Listed(Parent(p))}

\* The header line of the file at path p, as text.
HeaderText(p) == p \o <<":", LF>>

\* The path a header write names.
HeaderPath(i) == SubSeq(out[i].text, 1, Len(out[i].text) - 2)

\* A header write at i is followed by one opening fence, the contents and one
\* closing fence, in that order, and then by nothing or by the next header.
CompleteBlock(i) ==
    /\ i + 3 <= Len(out)
    /\ out[i + 1].line = 19
    /\ out[i + 2].line = 21
    /\ out[i + 3].line = 22
    /\ i + 4 <= Len(out) => out[i + 4].line = 18

\* The file system error or decoding error of a file, raised at line 20 or 21.
FileError == exc \in {"OSError", "UnicodeDecodeError"}

----------------------------------------------------------------------------
(* C2 *)

\* C2 as stated: in every run the tree block (header, opening fence,
\* rendering, closing fence) is written exactly once, and it is complete
\* before any file output.
C2_Original ==
    /\ pc = "exited" =>
          /\ \A n \in TreeLines : Cardinality(Lines({n})) = 1
          /\ SubSeq(out, 1, 5) = TreeBlock
    /\ \A i \in Lines(FileLines), j \in Lines(TreeLines) : j < i

\* C2, amended: each write of the tree block is made at most once.  In every
\* run in which DisplayTree returns, the tree block is written exactly once:
\* it is complete when print_tree returns, before print_files writes
\* anything, and stays the start of the output whatever happens later.  In a
\* run that DisplayTree aborts, only the header and the opening fence of the
\* block are written.  No tree output follows any file output.
C2_TreeBlockOnceBeforeFiles ==
    /\ \A n \in TreeLines : Cardinality(Lines({n})) <= 1
    /\ (\/ pc \in InPrintFiles \cup {"L28"}
        \/ Lines(FileLines) # {}
        \/ (pc \in {"raise", "exited"} /\ exc # "DisplayTreeError"))
          => /\ Len(out) >= 5 /\ SubSeq(out, 1, 5) = TreeBlock
             /\ \A n \in TreeLines : Cardinality(Lines({n})) = 1
    /\ exc = "DisplayTreeError" => out = SubSeq(TreeBlock, 1, 2) /\ Lines(FileLines) = {}
    /\ \A i \in Lines(FileLines), j \in Lines(TreeLines) : j < i

C2_Witness ==
    /\ pc = "exited"
    /\ Cardinality(Lines({18})) >= 2
    /\ Cardinality(Lines({10})) = 1

----------------------------------------------------------------------------
(* C6 *)

\* The root exists and no regular file lies anywhere under it.
ZeroFiles == fs[Root].kind = "dir" /\ RegularFiles = {}

\* C6: when the root exists and holds no regular file (it may hold
\* subdirectories), print_files writes no header and no fence, and print_tree
\* still writes its complete block: once print_tree is over the output is
\* the tree block and nothing else, and the run ends normally.
C6_ZeroFilesOnlyTreeBlock ==
    ZeroFiles =>
        /\ Lines(FileLines) = {}
        /\ exc = "none"
        /\ pc \in InPrintFiles \cup {"L28", "exited"} => out = TreeBlock
        /\ pc = "exited" => exit_code = 0

C6_Witness ==
    /\ ZeroFiles
    /\ fs[SubDir].kind = "dir"
    /\ root = SubDir
    /\ pc = "exited"

----------------------------------------------------------------------------
(* C1 *)

\* The headers of the output are one per file of the set S, none repeated,
\* and each is followed by one opening and one closing fence before the next.
OneBlockPerFile(S) ==
    /\ Cardinality(Lines({18})) = Cardinality(S)
    /\ \A p \in S : Cardinality({i \in Lines({18}) : out[i].text = HeaderText(p)}) = 1
    /\ \A i \in Lines({18}) : CompleteBlock(i)
    /\ Cardinality(Lines({19})) = Cardinality(S)
    /\ Cardinality(Lines({22})) = Cardinality(S)

\* C1 as stated: a run that completes has written one block for each of the
\* N regular files under the root, at any depth.
C1_Original ==
    (pc = "exited" /\ exit_code = 0) => OneBlockPerFile(RegularFiles)

\* C1, amended: a run that completes has written one block for each regular
\* file whose directories, up to the root, can all be listed, and none for
\* any other file: os.walk skips a directory it cannot list, silently.
C1_OneBlockPerWalkedFile ==
    (pc = "exited" /\ exit_code = 0) => OneBlockPerFile(WalkedFiles)

C1_Witness ==
    /\ pc = "exited"
    /\ exit_code = 0
    /\ WalkedFiles = {FileA, FileB, FileC}
    /\ Cardinality(Lines({18})) = 3

----------------------------------------------------------------------------
(* C3 *)

\* The characters of a file's content as Python's text mode hands them over,
\* stated position by position: a line feed that directly follows a carriage
\* return is dropped, and every carriage return is read as a line feed.
KeptPositions(b) == {i \in DOMAIN b : ~(b[i] = LF /\ i > 1 /\ b[i - 1] = CR)}
DecodedText(b) ==
    [k \in 1..Cardinality(KeptPositions(b)) |->
        LET i == CHOOSE i \in KeptPositions(b) :
                    Cardinality({j \in KeptPositions(b) : j < i}) = k - 1
        IN  IF b[i] = CR THEN LF ELSE b[i]]

\* The positions of the content writes, each two writes after its header.
ContentWrites == {i \in Lines({21}) : i > 2 /\ out[i - 2].line = 18}

\* C3 as stated: what is written between a file's opening fence line and its
\* closing fence line is the file's on-disk content, byte for byte.
C3_Original ==
    /\ Lines({21}) = ContentWrites
    /\ \A i \in ContentWrites : out[i].text = fs[HeaderPath(i - 2)].bytes

\* C3, amended: what is written between a file's opening fence line and its
\* closing fence line is the file's content as text mode reads it ("\r\n"
\* and "\r" read as "\n"), followed by the one line feed print adds.
C3_ContentThenNewline ==
    /\ Lines({21}) = ContentWrites
    /\ \A i \in ContentWrites :
          /\ HeaderPath(i - 2) \in RegularFiles
          /\ out[i].text = DecodedText(fs[HeaderPath(i - 2)].bytes) \o <<LF>>

C3_Witness ==
    /\ pc = "exited"
    /\ \E i \in ContentWrites :
          /\ HeaderPath(i - 2) = FileA
          /\ fs[FileA].bytes = <<CR, LF>>
          /\ out[i].text = <<LF, LF>>

----------------------------------------------------------------------------
(* C8 *)

\* C8: the writes of a file come in a fixed order, with nothing of another
\* file between them: the header, whose path is the directory being walked
\* joined with the file name and which follows the tree block or the closing
\* fence of the file before; the opening fence, always tagged rust; the
\* file's contents; the closing fence and one blank line.
C8_BlockOrder ==
    /\ \A i \in Lines({18}) :
          /\ i > 1 /\ out[i - 1].line \in {11, 22}
          /\ \E d \in AllPaths, n \in Names :
                /\ Listed(d)
                /\ d \o <<"/", n>> \in RegularFiles
                /\ out[i].text = d \o <<"/", n, ":", LF>>
    /\ \A i \in Lines({19}) :
          /\ i > 1 /\ out[i - 1].line = 18
          /\ out[i].text = <<Fence, "rust", LF>>
    /\ \A i \in Lines({21}) :
          /\ i > 2 /\ out[i - 1].line = 19
          /\ out[i].text = DecodedText(fs[HeaderPath(i - 2)].bytes) \o <<LF>>
    /\ \A i \in Lines({22}) :
          /\ i > 1 /\ out[i - 1].line = 21
          /\ out[i].text = <<Fence, LF, LF>>
    /\ pc \in {"L19", "L20", "L21", "with_exit", "L22"} =>
          /\ Lines({18}) # {}
          /\ HeaderPath(CHOOSE i \in Lines({18}) : \A j \in Lines({18}) : j <= i)
                = root \o <<"/", file>>
    /\ pc = "L19" => out[Len(out)].line = 18
    /\ pc = "L20" => out[Len(out)].line = 19
    /\ pc = "L22" => out[Len(out)].line = 21
    /\ (pc = "L18" \/ (pc = "exited" /\ exit_code = 0)) => out[Len(out)].line \in {11, 22}

C8_Witness ==
    /\ pc = "exited"
    /\ exit_code = 0
    /\ Cardinality(Lines({22})) = 3
    /\ out[6].text = HeaderText(FileC)
    /\ out[Len(out) - 3].text = HeaderText(FileB)

----------------------------------------------------------------------------
(* C5 *)

\* The last header written.
LastHeader == CHOOSE i \in Lines({18}) : \A j \in Lines({18}) : j <= i

\* C5: once opening or reading a file has failed, the run never goes back to
\* the loops: the error goes up unhandled and the run ends with status 1.
\* The output stays what it was at the failure: the tree block, the complete
\* blocks of the files visited before, and the header and opening fence of
\* the file that failed, with nothing of any later file.
C5_AbortAtFailedFile ==
    FileError =>
        /\ pc \in {"with_exit", "raise", "exited"}
        /\ pc = "exited" => exit_code = 1
        /\ Lines({18}) # {}
        /\ HeaderPath(LastHeader) = root \o <<"/", file>>
        /\ Len(out) = LastHeader + 1
        /\ out[Len(out)].line = 19
        /\ \A i \in Lines({18}) \ {LastHeader} : CompleteBlock(i)
        /\ Cardinality(Lines({18})) = Cardinality(Lines({22})) + 1

C5_Witness ==
    /\ FileError
    /\ pc = "exited"
    /\ Cardinality(Lines({22})) >= 1
    /\ (files # <<>> \/ stack # <<>>)

----------------------------------------------------------------------------
(* C7 *)

\* C7: at most one file is open at any time, and only between the open of
\* line 20 and the end of the with block, where it is the current file; no
\* file is open when the closing fence is printed, when the next file is
\* opened, or when an error goes up or the run has ended, whether the read
\* succeeded or failed.
C7_HandleScoped ==
    /\ Cardinality(f) <= 1
    /\ f # {} => pc \in {"L21", "with_exit"} /\ f = {root \o <<"/", file>>}
    /\ pc = "L21" => f # {}
    /\ pc \in {"L22", "L20", "raise", "exited"} => f = {}

C7_Witness ==
    /\ pc = "exited"
    /\ exc = "UnicodeDecodeError"
    /\ f = {}
    /\ Cardinality(Lines({21})) >= 1

----------------------------------------------------------------------------
(* C9 *)

\* C9: a run that a file aborts has written that file's header and opening
\* fence and not its closing fence, so that its output ends with an opening
\* fence and holds one more opening fence than closing fences among the file
\* blocks; a run that DisplayTree aborts has written the tree block's header
\* and opening fence and nothing else.
C9_UnclosedFence ==
    /\ FileError =>
          /\ Len(out) >= 2
          /\ out[Len(out) - 1] = [line |-> 18, text |-> root \o <<"/", file, ":", LF>>]
          /\ out[Len(out)] = [line |-> 19, text |-> <<Fence, "rust", LF>>]
          /\ Cardinality(Lines({19})) = Cardinality(Lines({22})) + 1
          /\ Cardinality(Lines({8})) = Cardinality(Lines({10}))
    /\ exc = "DisplayTreeError" =>
          /\ out = SubSeq(TreeBlock, 1, 2)
          /\ Lines({10}) = {}
    /\ (pc = "exited" /\ exit_code = 1) => (FileError \/ exc = "DisplayTreeError")

C9_Witness ==
    /\ pc = "exited"
    /\ exit_code = 1
    /\ exc = "OSError"
    /\ Cardinality(Lines({19})) = 2
    /\ Cardinality(Lines({22})) = 1

----------------------------------------------------------------------------
(* C10 *)

\* C10: print_files never raises because of a directory.  With the root
\* missing, os.walk yields nothing: print_files never gets past line 16,
\* writes nothing and ends normally, so that a run with the root missing
\* ends with a non-zero status only when DisplayTree raised, before
\* print_files was ever called.  A subdirectory that cannot be listed is
\* never yielded and no file in it gets a header.  An OSError comes from the
\* open of line 20 alone.
C10_WalkNeverRaises ==
    /\ fs[Root].kind = "none" =>
          /\ Lines(FileLines) = {}
          /\ exc \in {"none", "DisplayTreeError"}
          /\ pc \in InPrintFiles => pc = "L16" /\ exc = "none"
          /\ (pc = "exited" /\ exit_code # 0) =>
                exc = "DisplayTreeError" /\ stack = <<>> /\ Len(out) = 2
          /\ (pc = "exited" /\ exc = "none") => exit_code = 0 /\ out = <<>>
    /\ root # <<>> => ~scandir_fails(root)
    /\ fs[SubDir] = Dir(FALSE) =>
          \A i \in Lines({18}) : out[i].text # HeaderText(FileB)
    /\ exc = "OSError" => pc \in {"raise", "exited"} /\ open_fails(root \o <<"/", file>>)

C10_Witness ==
    /\ fs[Root].kind = "none"
    /\ pc = "exited"
    /\ exit_code = 0
    /\ exc = "none"
    /\ out = <<>>

----------------------------------------------------------------------------
(* C4 *)

\* C4: with the root missing, the program writes no file output, never
\* reaches print_files, and ends with a non-zero status, never normally.
C4_MissingRootExitsNonZero ==
    fs[Root].kind = "none" =>
        /\ Lines(FileLines) = {}
        /\ pc \notin InPrintFiles \cup {"L10", "L11", "L28"}
        /\ pc = "exited" => exit_code # 0 /\ exc # "none"

C4_Witness ==
    /\ fs[Root].kind = "none"
    /\ pc = "exited"
    /\ exit_code = 1
    /\ exc = "DisplayTreeError"

====
